---- MODULE Spec2Model ----
(***************************************************************************)
(* Model of cn_dicts/wubi.encoded.py: the Wubi phrase dictionary builder.  *)
(*                                                                         *)
(* Strings are modelled as sequences of one-character strings, so that     *)
(* slicing, concatenation, lower-casing and regular-expression matching    *)
(* are computed character by character as the Python code computes them.   *)
(*                                                                         *)
(* Three specifications share the variables:                               *)
(*   SpecRules    the rule engine (generate_wubi_code and the six rules)   *)
(*   SpecWeights  read_phrase_weights and the weight resolution            *)
(*   Spec         one program session: auto_mode, interactive_single_input *)
(*                and file_batch_mode over the dictionary and fail files   *)
(***************************************************************************)
EXTENDS Integers, Sequences, FiniteSets, TLC

VARIABLES
    char_codes,        \* Dict[str, str]: character -> base code
    phrase_weights,    \* Dict[str, str]: phrase -> weight string
    rule,              \* the encoding rule chosen by select_encoding_rule
    pinyin_ok,         \* whether the pypinyin transform is importable and works
    enc,               \* last call of generate_wubi_code: phrase, rule, code
    weight_file,       \* lines of the weight table, as read so far
    resolved,          \* last weight resolution: phrase and weight written
    output_file,       \* lines of OUTPUT_FILE
    fail_file,         \* lines of FAIL_FILE
    existing_phrases,  \* auto_mode's set of phrases already in the dictionary
    batch,             \* the running file_batch_mode call, or its idle record
    results,           \* what the finished file_batch_mode calls returned
    outcome,           \* what the last interactive_single_input call returned
    counts,            \* the counters of the driver loop
    pc                 \* position of the driver

vars == <<char_codes, phrase_weights, rule, pinyin_ok, enc, weight_file,
          resolved, output_file, fail_file, existing_phrases, batch, results,
          outcome, counts, pc>>

(***************************************************************************)
(* Bounds of the model.                                                    *)
(***************************************************************************)
MaxCodeLen == 5
MaxPhraseLen == 5
MaxWeightLines == 3
MaxInputs == 2
MaxBatchLines == 2
MaxCalls == 2

(***************************************************************************)
(* Python string helpers.                                                  *)
(***************************************************************************)
Min(a, b) == IF a < b THEN a ELSE b

\* s[:n]
Take(s, n) == SubSeq(s, 1, Min(n, Len(s)))

\* s[i:j] with 0-based Python indices
Slice(s, i, j) == SubSeq(s, i + 1, Min(j, Len(s)))

\* "x" * n
Xs(n) == [k \in 1..n |-> "x"]

LowerLetters ==
    <<"a", "b", "c", "d", "e", "f", "g", "h", "i", "j", "k", "l", "m", "n",
      "o", "p", "q", "r", "s", "t", "u", "v", "w", "x", "y", "z">>
UpperLetters ==
    <<"A", "B", "C", "D", "E", "F", "G", "H", "I", "J", "K", "L", "M", "N",
      "O", "P", "Q", "R", "S", "T", "U", "V", "W", "X", "Y", "Z">>

\* str.lower() on one character
LowerChar(c) ==
    IF \E i \in 1..Len(UpperLetters) : UpperLetters[i] = c
    THEN LowerLetters[CHOOSE i \in 1..Len(UpperLetters) : UpperLetters[i] = c]
    ELSE c

\* str.lower()
Lower(s) == [k \in 1..Len(s) |-> LowerChar(s[k])]

UpperChar(c) ==
    IF \E i \in 1..Len(LowerLetters) : LowerLetters[i] = c
    THEN UpperLetters[CHOOSE i \in 1..Len(LowerLetters) : LowerLetters[i] = c]
    ELSE c

\* dict.get(key, default)
Get(d, key, default) == IF key \in DOMAIN d THEN d[key] ELSE default

(***************************************************************************)
(* Characters.  zh1 and zh2 are CJK characters that the code table may     *)
(* hold, zh3 a CJK character the code table never holds, "lat" a Latin     *)
(* letter and " " a blank.                                                 *)
(***************************************************************************)
TableChars == {"zh1", "zh2"}
ChineseChars == {"zh1", "zh2", "zh3"}

\* re.findall(r'[一-鿿]', ...) on one character
IsChinese(c) == c \in ChineseChars

\* the letters of the base code the table file may give a character
BaseLetters(c) ==
    IF c = "zh1" THEN <<"a", "b", "c", "d", "e", "f", "g", "h">>
    ELSE <<"k", "l", "m", "n", "o", "p", "q", "r">>

\* a code of the table file: `len` letters, in upper case when `upper`
RawCode(c, len, upper) ==
    [k \in 1..len |-> IF upper THEN UpperChar(BaseLetters(c)[k]) ELSE BaseLetters(c)[k]]

\* the table files: each table character absent (0) or with a code of
\* 1..MaxCodeLen letters
RawTables ==
    { [c \in { d \in TableChars : lens[d] > 0 } |-> RawCode(c, lens[c], upper)] :
        lens \in [TableChars -> 0..MaxCodeLen], upper \in BOOLEAN }

\* read_single_char_codes: codes are lower-cased on load
read_single_char_codes(raw) == [c \in DOMAIN raw |-> Lower(raw[c])]

(***************************************************************************)
(* The rule engine.                                                        *)
(***************************************************************************)
get_first_code(char, codes) ==
    LET code == Get(codes, char, <<>>)
    IN  IF code # <<>> THEN Slice(code, 0, 1) ELSE <<"x">>

\* the first two codes with a one-letter code left as it is
get_first_two_codes_unpadded(char, codes) ==
    LET code == Get(codes, char, <<>>)
    IN  IF Len(code) >= 1 THEN Lower(Take(code, 2)) ELSE <<"x", "x">>

get_first_two_codes(char, codes) ==
    LET code == Get(codes, char, <<>>)
    IN  IF Len(code) >= 2 THEN Lower(Take(code, 2))
        ELSE IF Len(code) = 1 THEN Lower(code) \o <<"x">>
        ELSE <<"x", "x">>

\* "".join(get_first_code(char) for char in phrase[from-1:])
RECURSIVE JoinFirstCodes(_, _, _)
JoinFirstCodes(phrase, from, codes) ==
    IF from > Len(phrase) THEN <<>>
    ELSE get_first_code(phrase[from], codes) \o JoinFirstCodes(phrase, from + 1, codes)

\* rule 1 taking, from five characters on, the fourth character's first
\* code where the code takes the last character's
rule_standard_wubi_fourth(phrase, codes) ==
    LET length == Len(phrase)
    IN  IF length = 1 THEN Lower(Get(codes, phrase[1], <<"x", "x", "x", "x">>))
        ELSE IF length = 2 THEN
            Lower(Take(get_first_two_codes(phrase[1], codes)
                       \o get_first_two_codes(phrase[2], codes), 4))
        ELSE IF length = 3 THEN
            Lower(Take(get_first_code(phrase[1], codes)
                       \o get_first_code(phrase[2], codes)
                       \o get_first_two_codes(phrase[3], codes), 4))
        ELSE
            Lower(Take(JoinFirstCodes(phrase, 1, codes), 4))

rule_standard_wubi(phrase, codes) ==
    LET length == Len(phrase)
    IN  IF length = 1 THEN Lower(Get(codes, phrase[1], <<"x", "x", "x", "x">>))
        ELSE IF length = 2 THEN
            Lower(Take(get_first_two_codes(phrase[1], codes)
                       \o get_first_two_codes(phrase[2], codes), 4))
        ELSE IF length = 3 THEN
            Lower(Take(get_first_code(phrase[1], codes)
                       \o get_first_code(phrase[2], codes)
                       \o get_first_two_codes(phrase[3], codes), 4))
        ELSE IF length = 4 THEN
            Lower(Take(JoinFirstCodes(phrase, 1, codes), 4))
        ELSE
            Lower(Take(get_first_code(phrase[1], codes)
                       \o get_first_code(phrase[2], codes)
                       \o get_first_code(phrase[3], codes)
                       \o get_first_code(phrase[Len(phrase)], codes), 4))

rule_one_code_per_char(phrase, codes) ==
    LET length == Len(phrase)
    IN  IF length = 1 THEN Lower(Get(codes, phrase[1], <<"x", "x", "x", "x">>))
        ELSE IF length = 2 THEN
            Lower(Take(get_first_two_codes(phrase[1], codes)
                       \o get_first_two_codes(phrase[2], codes), 4))
        ELSE IF length = 3 THEN
            Lower(Take(get_first_code(phrase[1], codes)
                       \o get_first_code(phrase[2], codes)
                       \o get_first_two_codes(phrase[3], codes), 4))
        ELSE
            Lower(Take(JoinFirstCodes(phrase, 1, codes), 4))

rule_first_two_chars_two_codes_rest_one(phrase, codes) ==
    LET length == Len(phrase)
    IN  IF length = 1 THEN Lower(Get(codes, phrase[1], <<"x", "x", "x", "x">>))
        ELSE IF length = 2 THEN
            Lower(Take(get_first_two_codes(phrase[1], codes)
                       \o get_first_two_codes(phrase[2], codes), 4))
        ELSE
            Lower(Take(get_first_two_codes(phrase[1], codes)
                       \o get_first_two_codes(phrase[2], codes)
                       \o JoinFirstCodes(phrase, 3, codes), 4))

\* the for loop of rule_all_two_codes from character i on, `acc` being
\* "".join(codes) and Len(acc) the total_length
RECURSIVE AllTwoLoop(_, _, _, _)
AllTwoLoop(phrase, i, acc, codes) ==
    IF i > Len(phrase) \/ Len(acc) >= 4 THEN acc
    ELSE LET two_codes == get_first_two_codes(phrase[i], codes)
             remaining == 4 - Len(acc)
         IN  IF Len(two_codes) <= remaining
             THEN AllTwoLoop(phrase, i + 1, acc \o two_codes, codes)
             ELSE AllTwoLoop(phrase, i + 1, acc \o Take(two_codes, remaining), codes)

\* rule 4 without the padding of a short result
rule_all_two_codes_unpadded(phrase, codes) ==
    Lower(Take(AllTwoLoop(phrase, 1, <<>>, codes), 4))

rule_all_two_codes(phrase, codes) ==
    LET joined == AllTwoLoop(phrase, 1, <<>>, codes)
        result == IF Len(joined) < 4 THEN joined \o Xs(4 - Len(joined)) ELSE joined
    IN  Lower(Take(result, 4))

rule_free_coding(phrase, codes) == <<>>

\* re.findall(r'[一-鿿]', text) joined
RECURSIVE extract_chinese_chars(_)
extract_chinese_chars(text) ==
    IF text = <<>> THEN <<>>
    ELSE (IF IsChinese(Head(text)) THEN <<Head(text)>> ELSE <<>>)
         \o extract_chinese_chars(Tail(text))

\* pypinyin's first letter of one character
PinyinFirstLetter(c) == IF c = "zh1" THEN "Y" ELSE IF c = "zh2" THEN "e" ELSE "s"

\* get_pinyin_initials: "" when pypinyin cannot be imported or raises
get_pinyin_initials(text, ok) ==
    LET chinese_chars == extract_chinese_chars(text)
    IN  IF ~ok \/ chinese_chars = <<>> THEN <<>>
        ELSE Lower([k \in 1..Len(chinese_chars) |-> PinyinFirstLetter(chinese_chars[k])])

rule_wubi_pinyin_initials(phrase, codes, ok) ==
    LET wubi_code == rule_standard_wubi(phrase, codes)
        pinyin_initials == get_pinyin_initials(phrase, ok)
    IN  IF pinyin_initials # <<>> THEN wubi_code \o pinyin_initials ELSE wubi_code

generate_wubi_code(phrase, codes, r, ok) ==
    Lower(CASE r = 1 -> rule_standard_wubi(phrase, codes)
            [] r = 2 -> rule_one_code_per_char(phrase, codes)
            [] r = 3 -> rule_first_two_chars_two_codes_rest_one(phrase, codes)
            [] r = 4 -> rule_all_two_codes(phrase, codes)
            [] r = 5 -> rule_free_coding(phrase, codes)
            [] r = 6 -> rule_wubi_pinyin_initials(phrase, codes, ok)
            [] OTHER -> rule_standard_wubi(phrase, codes))

(***************************************************************************)
(* Idle values of the variables a specification does not use.              *)
(***************************************************************************)
NoEnc == [phrase |-> <<>>, rule |-> 0, code |-> <<>>, done |-> FALSE]
NoResolved == [phrase |-> <<>>, weight |-> <<>>, done |-> FALSE]
NoBatch == [running |-> FALSE, returned |-> FALSE]
NoOutcome == [done |-> FALSE]
NoCounts == [interactive_count |-> 0, file_count |-> 0, fail_count |-> 0,
             added_count |-> 0, empty_line_count |-> 0]

(***************************************************************************)
(* SpecRules: generate_wubi_code applied to every phrase of table          *)
(* characters, under every code table and rule.                            *)
(***************************************************************************)
RECURSIVE SeqsUpTo(_, _)
SeqsUpTo(S, n) ==
    IF n = 0 THEN {<<>>}
    ELSE LET shorter == SeqsUpTo(S, n - 1)
         IN  shorter \cup { Append(s, c) : s \in { t \in shorter : Len(t) = n - 1 }, c \in S }

EncPhrases == SeqsUpTo(TableChars, MaxPhraseLen) \ {<<>>}

InitRules ==
    /\ char_codes \in { read_single_char_codes(raw) : raw \in RawTables }
    /\ pinyin_ok \in BOOLEAN
    /\ phrase_weights = <<>>
    /\ rule = 0
    /\ enc = NoEnc
    /\ weight_file = <<>>
    /\ resolved = NoResolved
    /\ output_file = <<>>
    /\ fail_file = <<>>
    /\ existing_phrases = {}
    /\ batch = NoBatch
    /\ results = {}
    /\ outcome = NoOutcome
    /\ counts = NoCounts
    /\ pc = "rules"

GenerateCode ==
    /\ pc = "rules"
    /\ ~enc.done
    /\ \E phrase \in EncPhrases, r \in 1..6 :
          enc' = [phrase |-> phrase, rule |-> r,
                  code |-> generate_wubi_code(phrase, char_codes, r, pinyin_ok),
                  done |-> TRUE]
    /\ UNCHANGED <<char_codes, phrase_weights, rule, pinyin_ok, weight_file,
                   resolved, output_file, fail_file, existing_phrases, batch,
                   results, outcome, counts, pc>>

NextRules == GenerateCode

SpecRules == InitRules /\ [][NextRules]_vars

(***************************************************************************)
(* The weight table.  A line is the record of its first two tab-separated  *)
(* fields, the second one stripped.                                        *)
(***************************************************************************)
Digits == <<"0", "1", "2", "3", "4", "5", "6", "7", "8", "9">>

IsDigit(c) == \E i \in 1..Len(Digits) : Digits[i] = c

DigitValue(c) == (CHOOSE i \in 1..Len(Digits) : Digits[i] = c) - 1

\* re.match(r'^\d+$', s)
MatchDigits(s) == Len(s) >= 1 /\ \A k \in 1..Len(s) : IsDigit(s[k])

RECURSIVE DecimalValue(_)
DecimalValue(s) ==
    IF s = <<>> THEN 0
    ELSE 10 * DecimalValue(SubSeq(s, 1, Len(s) - 1)) + DigitValue(s[Len(s)])

\* int(s): an optional sign and decimal digits, ValueError otherwise
PyInt(s) ==
    LET signed == Len(s) >= 1 /\ s[1] \in {"+", "-"}
        body == IF signed THEN Tail(s) ELSE s
    IN  IF MatchDigits(body)
        THEN [ok |-> TRUE,
              val |-> IF signed /\ s[1] = "-" THEN 0 - DecimalValue(body)
                      ELSE DecimalValue(body)]
        ELSE [ok |-> FALSE, val |-> 0]

\* d[key] = value
Put(d, key, value) ==
    [k \in DOMAIN d \cup {key} |-> IF k = key THEN value ELSE d[k]]

\* the body of the loop of read_phrase_weights for one line
WeightLine(weights, line) ==
    LET phrase == line.phrase
        weight_str == line.weight
        weight_int == IF ~MatchDigits(weight_str) THEN 0 ELSE PyInt(weight_str).val
    IN  IF phrase \in DOMAIN weights
        THEN LET existing == PyInt(weights[phrase])
             IN  IF existing.ok
                 THEN IF weight_int > existing.val
                      THEN Put(weights, phrase, weight_str)
                      ELSE weights
                 ELSE Put(weights, phrase, weight_str)
        ELSE Put(weights, phrase, weight_str)

RECURSIVE ReadWeightLines(_, _)
ReadWeightLines(weights, lines) ==
    IF lines = <<>> THEN weights
    ELSE ReadWeightLines(WeightLine(weights, Head(lines)), Tail(lines))

read_phrase_weights(lines) == ReadWeightLines(<<>>, lines)

\* Config.DEFAULT_WEIGHT
DEFAULT_WEIGHT == <<"1", "0", "0">>

\* the weight interactive_single_input and file_batch_mode write for a phrase
resolve_weight(phrase, weights) ==
    LET weight == Get(weights, phrase, DEFAULT_WEIGHT)
    IN  IF ~MatchDigits(weight) THEN DEFAULT_WEIGHT ELSE weight

(***************************************************************************)
(* SpecWeights: read_phrase_weights on every weight table of up to         *)
(* MaxWeightLines lines, then the weight resolution for a phrase.          *)
(***************************************************************************)
WeightPhrases == {<<"zh1">>, <<"zh1", "zh2">>}

WeightStrings ==
    {<<"5">>, <<"9">>, <<"1", "0">>, <<"+", "7">>, <<"-", "3">>, <<"a">>}

WeightFileLines == [phrase : WeightPhrases, weight : WeightStrings]

InitWeights ==
    /\ weight_file \in SeqsUpTo(WeightFileLines, MaxWeightLines)
    /\ phrase_weights = <<>>
    /\ char_codes = <<>>
    /\ pinyin_ok = FALSE
    /\ rule = 0
    /\ enc = NoEnc
    /\ resolved = NoResolved
    /\ output_file = <<>>
    /\ fail_file = <<>>
    /\ existing_phrases = {}
    /\ batch = NoBatch
    /\ results = {}
    /\ outcome = NoOutcome
    /\ counts = NoCounts
    /\ pc = "weights"

LoadWeights ==
    /\ pc = "weights"
    /\ phrase_weights' = read_phrase_weights(weight_file)
    /\ pc' = "loaded"
    /\ UNCHANGED <<char_codes, rule, pinyin_ok, enc, weight_file, resolved,
                   output_file, fail_file, existing_phrases, batch, results,
                   outcome, counts>>

ResolveWeight ==
    /\ pc = "loaded"
    /\ ~resolved.done
    /\ \E phrase \in WeightPhrases :
          resolved' = [phrase |-> phrase,
                       weight |-> resolve_weight(phrase, phrase_weights),
                       done |-> TRUE]
    /\ UNCHANGED <<char_codes, phrase_weights, rule, pinyin_ok, enc, weight_file,
                   output_file, fail_file, existing_phrases, batch, results,
                   outcome, counts, pc>>

NextWeights == LoadWeights \/ ResolveWeight

SpecWeights == InitWeights /\ [][NextWeights]_vars

(***************************************************************************)
(* Properties of the weight table.                                         *)
(***************************************************************************)
\* the number a listed weight stands for: malformed weights count as 0
ListedValue(weight_str) ==
    IF MatchDigits(weight_str) THEN DecimalValue(weight_str) ELSE 0

ListedValues(lines, phrase) ==
    { ListedValue(lines[k].weight) : k \in { j \in 1..Len(lines) : lines[j].phrase = phrase } }

MaxOf(S) == CHOOSE m \in S : \A n \in S : n <= m

ListedPhrases(lines) == { lines[k].phrase : k \in 1..Len(lines) }

\* a stored weight is the number n
StoresNumber(weight_str, n) == MatchDigits(weight_str) /\ DecimalValue(weight_str) = n

Reorderings(lines) ==
    { [k \in 1..Len(lines) |-> lines[f[k]]] : f \in Permutations(1..Len(lines)) }

\* C5: after loading, the weight stored for each phrase is the numeric
\* maximum of the weights listed for it, and every permutation of the
\* table's lines gives the same stored weights.
C5_WeightMerge ==
    pc = "loaded" =>
        /\ DOMAIN phrase_weights = ListedPhrases(weight_file)
        /\ \A p \in ListedPhrases(weight_file) :
               StoresNumber(phrase_weights[p], MaxOf(ListedValues(weight_file, p)))
        /\ \A lines \in Reorderings(weight_file) :
               read_phrase_weights(lines) = phrase_weights

\* C6: every stored weight is a string of decimal digits, a phrase whose
\* lines all carry a malformed weight has stored weight 0, and ingesting it
\* writes the weight 0.
C6_MalformedIsZero ==
    pc = "loaded" =>
        /\ \A p \in DOMAIN phrase_weights : MatchDigits(phrase_weights[p])
        /\ \A p \in ListedPhrases(weight_file) :
               (\A k \in 1..Len(weight_file) :
                    weight_file[k].phrase = p => ~MatchDigits(weight_file[k].weight))
                   => /\ phrase_weights[p] = <<"0">>
                      /\ (resolved.done /\ resolved.phrase = p) => resolved.weight = <<"0">>

(***************************************************************************)
(* Properties of the rule engine.  firstCode and firstTwo are stated here  *)
(* from the code table itself, by position.                                *)
(***************************************************************************)
FirstCodeOf(c) ==
    IF c \in DOMAIN char_codes THEN <<char_codes[c][1]>> ELSE <<"x">>

FirstTwoOf(c) ==
    IF c \notin DOMAIN char_codes THEN <<"x", "x">>
    ELSE IF Len(char_codes[c]) = 1 THEN <<char_codes[c][1], "x">>
    ELSE <<char_codes[c][1], char_codes[c][2]>>

RECURSIVE ConcatFirstTwo(_)
ConcatFirstTwo(phrase) ==
    IF phrase = <<>> THEN <<>>
    ELSE FirstTwoOf(Head(phrase)) \o ConcatFirstTwo(Tail(phrase))

\* s cut to 4 characters, or filled up to 4 with "x"
PadOrCut4(s) == Take(s \o <<"x", "x", "x", "x">>, 4)

\* C7: under rules 1 to 4 the generated code has exactly 4 characters, and
\* a single-character phrase yields its base code cut or padded to 4.
C7_FixedWidth ==
    (enc.done /\ enc.rule \in 1..4) =>
        /\ Len(enc.code) = 4
        /\ (Len(enc.phrase) = 1 /\ enc.phrase[1] \in DOMAIN char_codes) =>
               enc.code = PadOrCut4(char_codes[enc.phrase[1]])

\* C8: rule 1 follows its length table for phrases of two or more
\* characters: n=2 firstTwo+firstTwo, n=3 firstCode+firstCode+firstTwo,
\* n=4 firstCode of each, n>=5 firstCode of the first three and of the
\* last, whatever stands between the third and the last.
C8_Rule1Table ==
    (enc.done /\ enc.rule = 1 /\ Len(enc.phrase) >= 2) =>
        LET p == enc.phrase
            n == Len(p)
        IN  /\ n = 2 => enc.code = Take(FirstTwoOf(p[1]) \o FirstTwoOf(p[2]), 4)
            /\ n = 3 => enc.code = FirstCodeOf(p[1]) \o FirstCodeOf(p[2]) \o FirstTwoOf(p[3])
            /\ n = 4 => enc.code = FirstCodeOf(p[1]) \o FirstCodeOf(p[2])
                                     \o FirstCodeOf(p[3]) \o FirstCodeOf(p[4])
            /\ n >= 5 =>
                 /\ enc.code = FirstCodeOf(p[1]) \o FirstCodeOf(p[2])
                                  \o FirstCodeOf(p[3]) \o FirstCodeOf(p[n])
                 /\ \A q \in EncPhrases :
                        (Len(q) >= 5 /\ SubSeq(q, 1, 3) = SubSeq(p, 1, 3) /\ q[Len(q)] = p[n])
                            => generate_wubi_code(q, char_codes, 1, pinyin_ok) = enc.code

\* a five-character phrase whose fourth and last characters have different
\* first codes has been encoded under rule 1
C8_Witness ==
    /\ enc.done /\ enc.rule = 1 /\ Len(enc.phrase) = 5
    /\ FirstCodeOf(enc.phrase[4]) # FirstCodeOf(enc.phrase[5])
    /\ Len(enc.code) = 4

\* C9: rule 4 concatenates firstTwo of each character in order, cuts the
\* result to 4 and right-pads it with "x" to 4, for every phrase length; a
\* single character whose base code is "a" yields "axxx".
C9_Rule4Accumulate ==
    (enc.done /\ enc.rule = 4) =>
        /\ enc.code = PadOrCut4(ConcatFirstTwo(enc.phrase))
        /\ (Len(enc.phrase) = 1 /\ Get(char_codes, enc.phrase[1], <<>>) = <<"a">>)
               => enc.code = <<"a", "x", "x", "x">>

\* the single character with base code "a" has been encoded under rule 4
C9_Witness ==
    /\ enc.done /\ enc.rule = 4 /\ enc.phrase = <<"zh1">>
    /\ Get(char_codes, "zh1", <<>>) = <<"a">>
    /\ enc.code = <<"a", "x", "x", "x">>

\* C17: on a phrase of two or more characters rule 3 and rule 4 return the
\* same code, firstTwo of the first character followed by firstTwo of the
\* second; the characters from the third on do not change it.
C17_Rules3And4Agree ==
    (enc.done /\ enc.rule \in {3, 4} /\ Len(enc.phrase) >= 2) =>
        LET p == enc.phrase
        IN  /\ enc.code = FirstTwoOf(p[1]) \o FirstTwoOf(p[2])
            /\ generate_wubi_code(p, char_codes, 3, pinyin_ok)
                   = generate_wubi_code(p, char_codes, 4, pinyin_ok)
            /\ \A q \in EncPhrases :
                   (Len(q) >= 2 /\ SubSeq(q, 1, 2) = SubSeq(p, 1, 2)) =>
                       generate_wubi_code(q, char_codes, enc.rule, pinyin_ok) = enc.code

\* rule 3 has encoded a three-character phrase whose first character has a
\* one-letter code and whose third character is in the table
C17_Witness ==
    /\ enc.done /\ enc.rule = 3 /\ Len(enc.phrase) = 3
    /\ enc.phrase[1] \in DOMAIN char_codes /\ Len(char_codes[enc.phrase[1]]) = 1
    /\ enc.phrase[3] \in DOMAIN char_codes
    /\ enc.code = FirstTwoOf(enc.phrase[1]) \o FirstTwoOf(enc.phrase[2])

\* C10: rule 6 returns the rule 1 code followed by the pinyin-initial
\* suffix, of total length exactly 4 + len(suffix); when the phonetic
\* transform is unavailable the result is the bare 4-character rule 1 code.
C10_Rule6Length ==
    (enc.done /\ enc.rule = 6) =>
        LET suffix == get_pinyin_initials(enc.phrase, pinyin_ok)
            wubi == generate_wubi_code(enc.phrase, char_codes, 1, pinyin_ok)
        IN  /\ enc.code = wubi \o suffix
            /\ Len(enc.code) = 4 + Len(suffix)
            /\ ~pinyin_ok => (enc.code = wubi /\ Len(enc.code) = 4)

(***************************************************************************)
(* The dictionary file and the fail file.  A line is blank or holds a      *)
(* phrase (its first tab-separated field), a code and a weight; a line of  *)
(* the fail file holds the phrase alone.                                   *)
(***************************************************************************)
Entry(phrase, code, weight) ==
    [blank |-> FALSE, phrase |-> phrase, code |-> code, weight |-> weight]

FailLine(phrase) == Entry(phrase, <<>>, <<>>)

BlankLine == [blank |-> TRUE, phrase |-> <<>>, code |-> <<>>, weight |-> <<>>]

\* the phrases of the non-blank lines of a file
read_existing_entries(file) ==
    { file[k].phrase : k \in { j \in 1..Len(file) : ~file[j].blank } }

NotBlank(line) == ~line.blank

clean_output_file(file) == SelectSeq(file, NotBlank)

check_all_chars_exist(phrase, codes) ==
    LET chinese_chars == extract_chinese_chars(phrase)
    IN  IF chinese_chars = <<>> THEN FALSE
        ELSE \A k \in 1..Len(chinese_chars) : chinese_chars[k] \in DOMAIN codes

(***************************************************************************)
(* interactive_single_input.  Its result is the returned pair (success,    *)
(* reason or code) and `lines`, what it appends to the dictionary file.    *)
(* The reasons: "exists" is 已存在, "uncoded_chars" 包含未编码汉字,        *)
(* "no_chinese" 不包含中文字符, "cancelled" 用户取消, "write_error" the    *)
(* text of the exception raised by the append, "input_error" the text of   *)
(* the exception raised by input() at the code prompt.                     *)
(***************************************************************************)
Refused(reason) ==
    [success |-> FALSE, reason |-> reason, code |-> <<>>, lines |-> <<>>]

\* the append with the weight looked up by the CJK characters of the phrase
append_entry_stripped_lookup(phrase, code, weights, write_ok) ==
    LET weight == resolve_weight(extract_chinese_chars(phrase), weights)
    IN  IF write_ok
        THEN [success |-> TRUE, reason |-> "added", code |-> code,
              lines |-> <<Entry(phrase, code, weight)>>]
        ELSE Refused("write_error")

\* lines 603-623: resolve the weight, append the line
append_entry(phrase, code, weights, write_ok) ==
    LET weight == resolve_weight(phrase, weights)
    IN  IF write_ok
        THEN [success |-> TRUE, reason |-> "added", code |-> code,
              lines |-> <<Entry(phrase, code, weight)>>]
        ELSE Refused("write_error")

\* interactive_single_input under a rule other than 5
interactive_single_input(phrase, r, codes, weights, existing, ok, write_ok) ==
    IF phrase \in existing THEN Refused("exists")
    ELSE IF r \notin {5, 6} /\ ~check_all_chars_exist(phrase, codes)
    THEN Refused("uncoded_chars")
    ELSE LET chinese_chars == extract_chinese_chars(phrase)
         IN  IF chinese_chars = <<>> THEN Refused("no_chinese")
             ELSE append_entry(phrase, generate_wubi_code(chinese_chars, codes, r, ok),
                               weights, write_ok)

(***************************************************************************)
(* The manual code of rule 5.                                              *)
(***************************************************************************)
RECURSIVE LStrip(_)
LStrip(s) == IF s # <<>> /\ Head(s) = " " THEN LStrip(Tail(s)) ELSE s

RECURSIVE RStrip(_)
RStrip(s) ==
    IF s # <<>> /\ s[Len(s)] = " " THEN RStrip(SubSeq(s, 1, Len(s) - 1)) ELSE s

\* str.strip()
Strip(s) == RStrip(LStrip(s))

\* s with every run of blanks cut to one blank
RECURSIVE SqueezeBlanks(_)
SqueezeBlanks(s) ==
    IF Len(s) < 2 THEN s
    ELSE IF s[1] = " " /\ s[2] = " " THEN SqueezeBlanks(Tail(s))
    ELSE <<s[1]>> \o SqueezeBlanks(Tail(s))

\* ' '.join(s.split())
JoinSplit(s) == Strip(SqueezeBlanks(s))

IsLowerLetter(c) == \E i \in 1..Len(LowerLetters) : LowerLetters[i] = c

\* re.match(r'^[a-z ]+$', s)
MatchLowerAndBlank(s) ==
    Len(s) >= 1 /\ \A k \in 1..Len(s) : IsLowerLetter(s[k]) \/ s[k] = " "

\* one pass of the prompt loop (lines 561-576) on what the user typed:
\* the accepted code, or the loop goes round again
manual_code(typed) ==
    LET user_code == Strip(typed)
    IN  IF user_code = <<>> THEN [accepted |-> FALSE, code |-> <<>>]
        ELSE IF ~MatchLowerAndBlank(Lower(user_code)) THEN [accepted |-> FALSE, code |-> <<>>]
        ELSE [accepted |-> TRUE, code |-> JoinSplit(Lower(user_code))]

(***************************************************************************)
(* One line of file_batch_mode's loop (lines 771-856).  The result gives   *)
(* what the line appends to the dictionary (`lines`) and to the fail file  *)
(* (`fails`) and what it adds to the three counters.                       *)
(***************************************************************************)
LineResult(reason, lines, fails, added, failed, skipped) ==
    [reason |-> reason, lines |-> lines, fails |-> fails,
     added |-> added, failed |-> failed, skipped |-> skipped]

\* the append to the fail file and what follows it
fail_append(reason, line, fail_ok) ==
    IF fail_ok THEN LineResult(reason, <<>>, <<FailLine(line)>>, 0, 1, 0)
    ELSE LineResult(reason, <<>>, <<>>, 0, 0, 0)

\* the loop body without the look-up in the loaded fail records
batch_line_no_fail_lookup(b, line, codes, weights, ok, write_ok, fail_ok) ==
    IF line = <<>> THEN LineResult("blank", <<>>, <<>>, 0, 0, 0)
    ELSE IF line \in b.existing_phrases THEN LineResult("exists", <<>>, <<>>, 0, 0, 1)
    ELSE IF b.rule = 6 /\ extract_chinese_chars(line) = <<>>
    THEN fail_append("no_chinese", line, fail_ok)
    ELSE IF b.rule # 6 /\ ~check_all_chars_exist(line, codes)
    THEN fail_append("uncoded_chars", line, fail_ok)
    ELSE LET entry == append_entry(line,
                          generate_wubi_code(extract_chinese_chars(line), codes, b.rule, ok),
                          weights, write_ok)
         IN  IF entry.success
             THEN LineResult("added", entry.lines, <<>>, 1, 0, 0)
             ELSE fail_append("write_error", line, fail_ok)

batch_line(b, line, codes, weights, ok, write_ok, fail_ok) ==
    IF line = <<>> THEN LineResult("blank", <<>>, <<>>, 0, 0, 0)
    ELSE IF line \in b.existing_phrases THEN LineResult("exists", <<>>, <<>>, 0, 0, 1)
    ELSE IF line \in b.existing_fail_phrases
    THEN LineResult("in_fail_file", <<>>, <<>>, 0, 0, 1)
    ELSE IF b.rule = 6 /\ extract_chinese_chars(line) = <<>>
    THEN fail_append("no_chinese", line, fail_ok)
    ELSE IF b.rule # 6 /\ ~check_all_chars_exist(line, codes)
    THEN fail_append("uncoded_chars", line, fail_ok)
    ELSE LET chinese_chars == extract_chinese_chars(line)
         IN  IF chinese_chars = <<>> THEN LineResult("no_chinese", <<>>, <<>>, 0, 1, 0)
             ELSE LET entry == append_entry(line,
                                   generate_wubi_code(chinese_chars, codes, b.rule, ok),
                                   weights, write_ok)
                  IN  IF entry.success
                      THEN LineResult("added", entry.lines, <<>>, 1, 0, 0)
                      ELSE fail_append("write_error", line, fail_ok)

(***************************************************************************)
(* Spec: one session of the program.  main loads the code table and the    *)
(* weight table and runs interactive_input_mode under rule 5 and auto_mode *)
(* under the other rules (pc = "interactive", "auto").  auto_mode calls    *)
(* file_batch_mode under rules 1 to 4 only; pc = "call" is a caller that   *)
(* calls file_batch_mode itself, with rule 6 or with rule 5.  The lines of *)
(* a batch input file are chosen as the loop reaches them.                 *)
(***************************************************************************)
SessionTable ==
    read_single_char_codes(("zh1" :> <<"A", "B", "c">>) @@ ("zh2" :> <<"k">>))

SessionWeightLines ==
    << [phrase |-> <<"zh1", "lat">>, weight |-> <<"9">>],
       [phrase |-> <<"zh1">>, weight |-> <<"5">>],
       [phrase |-> <<"zh1", "zh3">>, weight |-> <<"a">>] >>

\* what the user types at the phrase prompt, stripped
SessionPhrases == {<<"zh1", "lat">>, <<"zh1", "zh3">>, <<"lat">>}

\* the stripped lines of a batch input file
BatchLines == SessionPhrases \cup {<<>>}

\* what the user types at the code prompt of rule 5
TypedCodes ==
    {<<"A", "B", " ", "c", "d">>, <<"a", "1">>, <<" ">>, <<" ", "a", " ", " ", "b">>}

InitialDictionaries ==
    { <<>>, <<Entry(<<"zh1", "lat">>, <<"a", "b", "c">>, <<"9">>), BlankLine>> }

InitialFailFiles == { <<>>, <<FailLine(<<"zh1", "lat">>)>> }

Init ==
    /\ char_codes = SessionTable
    /\ weight_file = SessionWeightLines
    /\ phrase_weights = read_phrase_weights(SessionWeightLines)
    /\ rule \in 1..6
    /\ pinyin_ok \in (IF rule = 6 THEN BOOLEAN ELSE {TRUE})
    /\ enc = NoEnc
    /\ resolved = NoResolved
    /\ output_file \in InitialDictionaries
    /\ fail_file \in InitialFailFiles
    /\ pc \in (IF rule = 5 THEN {"interactive"}
              ELSE IF rule = 6 THEN {"auto", "call"} ELSE {"auto"})
    /\ existing_phrases = (IF pc = "call" THEN {} ELSE read_existing_entries(output_file))
    /\ batch = NoBatch
    /\ results = {}
    /\ outcome = NoOutcome
    /\ counts = NoCounts

\* The appends to the two files succeed or raise.  Only a call that
\* reaches an append meets the choice: `res` is what the call does when
\* the append succeeds.
DictWrites(res) == IF res.lines # <<>> THEN BOOLEAN ELSE {TRUE}

FailWrites(res) == IF res.fails # <<>> THEN BOOLEAN ELSE {TRUE}

loaded == <<char_codes, phrase_weights, rule, pinyin_ok, enc, weight_file, resolved>>

\* the record of a finished interactive_single_input call
Outcome(phrase, res, existing) ==
    [done |-> TRUE, phrase |-> phrase, success |-> res.success, reason |-> res.reason,
     code |-> res.code, appended |-> Len(res.lines), was_existing |-> phrase \in existing]

PhrasesOf(lines) == { lines[k].phrase : k \in 1..Len(lines) }

Failed(res) == IF ~res.success /\ res.reason # "exists" THEN 1 ELSE 0

\* lines 998-1000: the end of auto_mode
AutoCleaned(c, file) ==
    IF c.interactive_count > 0 \/ c.file_count > 0 THEN clean_output_file(file) ELSE file

\* lines 692-694: the end of interactive_input_mode
InteractiveCleaned(c, file) ==
    IF c.added_count > 0 THEN clean_output_file(file) ELSE file

\* the driver returns to main: its locals are gone
Leave ==
    /\ existing_phrases' = {}
    /\ batch' = NoBatch
    /\ outcome' = NoOutcome
    /\ pc' = "done"

\* auto_mode reads an empty line: the second one in a row ends the loop
AutoEmptyLine ==
    /\ pc = "auto"
    /\ counts' = [counts EXCEPT !.empty_line_count = @ + 1]
    /\ IF counts.empty_line_count + 1 >= 2
       THEN /\ output_file' = AutoCleaned(counts, output_file)
            /\ Leave
       ELSE UNCHANGED <<output_file, pc, existing_phrases, batch, outcome>>
    /\ UNCHANGED <<loaded, fail_file, results>>

\* auto_mode reads a phrase (under rule 6 also the path of a file)
AutoPhrase ==
    /\ pc = "auto"
    /\ counts.interactive_count + counts.file_count < MaxInputs
    /\ \E phrase \in SessionPhrases :
       \E write_ok \in DictWrites(interactive_single_input(phrase, rule, char_codes,
                            phrase_weights, existing_phrases, pinyin_ok, TRUE)) :
         LET res == interactive_single_input(phrase, rule, char_codes, phrase_weights,
                                             existing_phrases, pinyin_ok, write_ok)
         IN  /\ output_file' = output_file \o res.lines
             /\ existing_phrases' = existing_phrases \cup PhrasesOf(res.lines)
             /\ outcome' = Outcome(phrase, res, existing_phrases)
             /\ counts' = [counts EXCEPT !.empty_line_count = 0,
                                         !.interactive_count = @ + 1,
                                         !.fail_count = @ + Failed(res)]
    /\ UNCHANGED <<loaded, fail_file, batch, results, pc>>

\* the start of a batch run that does not read the fail file
Started_no_fail_load(r, caller) ==
    [running |-> TRUE, returned |-> FALSE, caller |-> caller, rule |-> r,
     existing_phrases |-> read_existing_entries(output_file),
     existing_fail_phrases |-> {},
     total_lines |-> 0, added_count |-> 0, fail_count |-> 0, skipped_count |-> 0,
     line |-> <<>>, reason |-> "none", appended |-> 0, fail_appended |-> 0]

\* lines 740-762: file_batch_mode loads both files and starts its loop
Started(r, caller) ==
    [running |-> TRUE, returned |-> FALSE, caller |-> caller, rule |-> r,
     existing_phrases |-> read_existing_entries(output_file),
     existing_fail_phrases |-> read_existing_entries(fail_file),
     total_lines |-> 0, added_count |-> 0, fail_count |-> 0, skipped_count |-> 0,
     line |-> <<>>, reason |-> "none", appended |-> 0, fail_appended |-> 0]

\* a return of file_batch_mode: the first two fields of the returned tuple,
\* and the number of input lines the call has read
Returned(kind, r, added, failed, lines) ==
    [running |-> FALSE, returned |-> TRUE, kind |-> kind, rule |-> r,
     added |-> added, failed |-> failed, total_lines |-> lines]

\* what a direct caller of file_batch_mode holds after the call; auto_mode
\* prints the returned counts and drops them
Kept(b, caller) ==
    IF caller = "call"
    THEN results \cup {[kind |-> b.kind, added |-> b.added, failed |-> b.failed]}
    ELSE results

\* auto_mode reads the path of a file under a rule other than 5 and 6
AutoFile ==
    /\ pc = "auto"
    /\ rule \notin {5, 6}
    /\ counts.interactive_count + counts.file_count < MaxInputs
    /\ batch' = Started(rule, "auto")
    /\ counts' = [counts EXCEPT !.empty_line_count = 0]
    /\ pc' = "batch"
    /\ UNCHANGED <<loaded, output_file, fail_file, existing_phrases, results, outcome>>

\* file_batch_mode is called directly with rule 6
CallBatch ==
    /\ pc = "call"
    /\ counts.file_count < MaxCalls
    /\ batch' = Started(rule, "call")
    /\ pc' = "batch"
    /\ UNCHANGED <<loaded, output_file, fail_file, existing_phrases, results,
                   outcome, counts>>

\* lines 734-738: file_batch_mode is called directly with rule 5
CallBatchRule5 ==
    /\ pc = "call"
    /\ counts.file_count < MaxCalls
    /\ batch' = Returned("rejected", 5, 0, 0, 0)
    /\ results' = Kept(batch', "call")
    /\ counts' = [counts EXCEPT !.file_count = @ + 1]
    /\ UNCHANGED <<loaded, output_file, fail_file, existing_phrases, outcome, pc>>

\* lines 767-769 and 915-917: the input file cannot be read
BatchOpenError ==
    /\ pc = "batch"
    /\ batch.total_lines = 0
    /\ batch' = Returned("error", batch.rule, 0, 0, 0)
    /\ results' = Kept(batch', batch.caller)
    /\ counts' = [counts EXCEPT !.file_count = @ + 1]
    /\ pc' = batch.caller
    /\ UNCHANGED <<loaded, output_file, fail_file, existing_phrases, outcome>>

\* one pass of the loop of file_batch_mode
BatchLine ==
    /\ pc = "batch"
    /\ batch.total_lines < MaxBatchLines
    /\ \E line \in BatchLines :
       \E write_ok \in DictWrites(batch_line(batch, line, char_codes, phrase_weights,
                                              pinyin_ok, TRUE, TRUE)) :
       \E fail_ok \in FailWrites(batch_line(batch, line, char_codes, phrase_weights,
                                             pinyin_ok, write_ok, TRUE)) :
         LET res == batch_line(batch, line, char_codes, phrase_weights, pinyin_ok,
                               write_ok, fail_ok)
         IN  /\ output_file' = output_file \o res.lines
             /\ fail_file' = fail_file \o res.fails
             /\ batch' = [batch EXCEPT
                    !.total_lines = @ + 1,
                    !.existing_phrases = @ \cup PhrasesOf(res.lines),
                    !.existing_fail_phrases = @ \cup PhrasesOf(res.fails),
                    !.added_count = @ + res.added,
                    !.fail_count = @ + res.failed,
                    !.skipped_count = @ + res.skipped,
                    !.line = line,
                    !.reason = res.reason,
                    !.appended = Len(res.lines),
                    !.fail_appended = Len(res.fails)]
    /\ UNCHANGED <<loaded, existing_phrases, results, outcome, counts, pc>>

\* lines 858-917: the loop is over; both files are cleaned, the record file
\* is written (an exception there makes the call return 0, 0)
BatchEnd ==
    /\ pc = "batch"
    /\ output_file' = (IF batch.added_count > 0 THEN clean_output_file(output_file)
                       ELSE output_file)
    /\ fail_file' = (IF batch.fail_count > 0 THEN clean_output_file(fail_file)
                     ELSE fail_file)
    /\ \E record_ok \in BOOLEAN :
         batch' = (IF record_ok
                   THEN Returned("normal", batch.rule, batch.added_count,
                                 batch.fail_count, batch.total_lines)
                   ELSE Returned("error", batch.rule, 0, 0, batch.total_lines))
    /\ results' = Kept(batch', batch.caller)
    /\ counts' = [counts EXCEPT !.file_count = @ + 1]
    /\ pc' = batch.caller
    /\ UNCHANGED <<loaded, existing_phrases, outcome>>

\* KeyboardInterrupt at the prompt of auto_mode (lines 991-993)
AutoInterrupt ==
    /\ pc = "auto"
    /\ output_file' = AutoCleaned(counts, output_file)
    /\ Leave
    /\ UNCHANGED <<loaded, fail_file, results, counts>>

\* KeyboardInterrupt between two lines of a batch: file_batch_mode does not
\* catch it; auto_mode catches it and leaves its loop
BatchInterrupt ==
    /\ pc = "batch"
    /\ output_file' = (IF batch.caller = "auto" THEN AutoCleaned(counts, output_file)
                       ELSE output_file)
    /\ Leave
    /\ UNCHANGED <<loaded, fail_file, results, counts>>

\* interactive_input_mode reads an empty line
InteractiveEmptyLine ==
    /\ pc = "interactive"
    /\ counts' = [counts EXCEPT !.empty_line_count = @ + 1]
    /\ IF counts.empty_line_count + 1 >= 2
       THEN /\ output_file' = InteractiveCleaned(counts, output_file)
            /\ Leave
       ELSE UNCHANGED <<output_file, pc, existing_phrases, batch, outcome>>
    /\ UNCHANGED <<loaded, fail_file, results>>

\* interactive_input_mode reads the path of a file (lines 669-672)
InteractiveFilePath ==
    /\ pc = "interactive"
    /\ counts' = [counts EXCEPT !.empty_line_count = 0]
    /\ UNCHANGED <<loaded, output_file, fail_file, existing_phrases, batch, results,
                   outcome, pc>>

\* interactive_input_mode reads a phrase: interactive_single_input under
\* rule 5 returns at once for a known phrase and asks for a code otherwise
InteractivePhrase ==
    /\ pc = "interactive"
    /\ counts.added_count + counts.fail_count < MaxInputs
    /\ \E phrase \in SessionPhrases :
         IF phrase \in existing_phrases
         THEN /\ outcome' = Outcome(phrase, Refused("exists"), existing_phrases)
              /\ pc' = "interactive"
         ELSE /\ outcome' = [done |-> FALSE, phrase |-> phrase, prompts |-> 0]
              /\ pc' = "prompt"
    /\ counts' = [counts EXCEPT !.empty_line_count = 0]
    /\ UNCHANGED <<loaded, output_file, fail_file, existing_phrases, batch, results>>

\* the user types a code: an invalid one is asked for again, a valid one
\* is written with the phrase
PromptTyped ==
    /\ pc = "prompt"
    /\ \E typed \in TypedCodes, write_ok \in BOOLEAN :
         LET manual == manual_code(typed)
             res == append_entry(outcome.phrase, manual.code, phrase_weights, write_ok)
         IN  IF ~manual.accepted
             THEN /\ outcome' = [outcome EXCEPT !.prompts = 1]
                  /\ UNCHANGED <<output_file, existing_phrases, counts, pc>>
             ELSE /\ output_file' = output_file \o res.lines
                  /\ existing_phrases' = existing_phrases \cup PhrasesOf(res.lines)
                  /\ outcome' = Outcome(outcome.phrase, res, existing_phrases)
                  /\ counts' = [counts EXCEPT
                         !.added_count = @ + (IF res.success THEN 1 ELSE 0),
                         !.fail_count = @ + Failed(res)]
                  /\ pc' = "interactive"
    /\ UNCHANGED <<loaded, fail_file, batch, results>>

\* KeyboardInterrupt at the code prompt (lines 577-579)
PromptCancel ==
    /\ pc = "prompt"
    /\ outcome' = Outcome(outcome.phrase, Refused("cancelled"), existing_phrases)
    /\ counts' = [counts EXCEPT !.fail_count = @ + 1]
    /\ pc' = "interactive"
    /\ UNCHANGED <<loaded, output_file, fail_file, existing_phrases, batch, results>>

\* lines 580-582: input() raises at the code prompt (end of input): the call
\* returns False with the text of the exception
PromptError ==
    /\ pc = "prompt"
    /\ outcome' = Outcome(outcome.phrase, Refused("input_error"), existing_phrases)
    /\ counts' = [counts EXCEPT !.fail_count = @ + 1]
    /\ pc' = "interactive"
    /\ UNCHANGED <<loaded, output_file, fail_file, existing_phrases, batch, results>>

\* KeyboardInterrupt at the phrase prompt of interactive_input_mode
InteractiveInterrupt ==
    /\ pc = "interactive"
    /\ output_file' = InteractiveCleaned(counts, output_file)
    /\ Leave
    /\ UNCHANGED <<loaded, fail_file, results, counts>>

Next ==
    \/ AutoEmptyLine
    \/ AutoPhrase
    \/ AutoFile
    \/ AutoInterrupt
    \/ CallBatch
    \/ CallBatchRule5
    \/ BatchOpenError
    \/ BatchLine
    \/ BatchEnd
    \/ BatchInterrupt
    \/ InteractiveEmptyLine
    \/ InteractiveFilePath
    \/ InteractivePhrase
    \/ PromptTyped
    \/ PromptCancel
    \/ PromptError
    \/ InteractiveInterrupt

Spec == Init /\ [][Next]_vars

(***************************************************************************)
(* SpecPipeline: interactive_single_input called by a caller that passes   *)
(* the phrase as it is, under the rule chosen at start.  The drivers strip *)
(* what the user types and never pass an empty phrase; the function        *)
(* itself takes any string.                                                *)
(***************************************************************************)
PipelinePhrases == {<<>>, <<" ">>, <<" ", " ">>, <<"zh1">>, <<"zh1", "lat">>}

InitPipeline ==
    /\ char_codes = SessionTable
    /\ weight_file = SessionWeightLines
    /\ phrase_weights = read_phrase_weights(SessionWeightLines)
    /\ rule \in 1..6
    /\ pinyin_ok \in (IF rule = 6 THEN BOOLEAN ELSE {TRUE})
    /\ enc = NoEnc
    /\ resolved = NoResolved
    /\ output_file \in InitialDictionaries
    /\ fail_file = <<>>
    /\ existing_phrases = read_existing_entries(output_file)
    /\ batch = NoBatch
    /\ results = {}
    /\ outcome = NoOutcome
    /\ counts = NoCounts
    /\ pc = "pipeline"

\* a call of interactive_single_input: under rule 5 a phrase that is not
\* known leads to the code prompt, every other call returns at once
PipelineCall ==
    /\ pc = "pipeline"
    /\ counts.interactive_count < MaxCalls
    /\ \E phrase \in PipelinePhrases :
         IF rule = 5
         THEN /\ IF phrase \in existing_phrases
                 THEN /\ outcome' = Outcome(phrase, Refused("exists"), existing_phrases)
                      /\ pc' = "pipeline"
                 ELSE /\ outcome' = [done |-> FALSE, phrase |-> phrase, prompts |-> 0]
                      /\ pc' = "pipeline_prompt"
              /\ UNCHANGED <<output_file, existing_phrases>>
         ELSE \E write_ok \in DictWrites(interactive_single_input(phrase, rule, char_codes,
                                  phrase_weights, existing_phrases, pinyin_ok, TRUE)) :
                LET res == interactive_single_input(phrase, rule, char_codes,
                               phrase_weights, existing_phrases, pinyin_ok, write_ok)
                IN  /\ output_file' = output_file \o res.lines
                    /\ existing_phrases' = existing_phrases \cup PhrasesOf(res.lines)
                    /\ outcome' = Outcome(phrase, res, existing_phrases)
                    /\ pc' = "pipeline"
    /\ counts' = [counts EXCEPT !.interactive_count = @ + 1]
    /\ UNCHANGED <<loaded, fail_file, batch, results>>

\* lines 561-576 and 603-623: the user types a code
PipelineTyped ==
    /\ pc = "pipeline_prompt"
    /\ \E typed \in TypedCodes, write_ok \in BOOLEAN :
         LET manual == manual_code(typed)
             res == append_entry(outcome.phrase, manual.code, phrase_weights, write_ok)
         IN  IF ~manual.accepted
             THEN /\ outcome' = [outcome EXCEPT !.prompts = 1]
                  /\ UNCHANGED <<output_file, existing_phrases, pc>>
             ELSE /\ output_file' = output_file \o res.lines
                  /\ existing_phrases' = existing_phrases \cup PhrasesOf(res.lines)
                  /\ outcome' = Outcome(outcome.phrase, res, existing_phrases)
                  /\ pc' = "pipeline"
    /\ UNCHANGED <<loaded, fail_file, batch, results, counts>>

\* lines 577-579: KeyboardInterrupt at the code prompt
PipelineCancel ==
    /\ pc = "pipeline_prompt"
    /\ outcome' = Outcome(outcome.phrase, Refused("cancelled"), existing_phrases)
    /\ pc' = "pipeline"
    /\ UNCHANGED <<loaded, output_file, fail_file, existing_phrases, batch, results, counts>>

\* lines 580-582: input() raises at the code prompt
PipelineError ==
    /\ pc = "pipeline_prompt"
    /\ outcome' = Outcome(outcome.phrase, Refused("input_error"), existing_phrases)
    /\ pc' = "pipeline"
    /\ UNCHANGED <<loaded, output_file, fail_file, existing_phrases, batch, results, counts>>

NextPipeline == PipelineCall \/ PipelineTyped \/ PipelineCancel \/ PipelineError

SpecPipeline == InitPipeline /\ [][NextPipeline]_vars

(***************************************************************************)
(* Properties of interactive_single_input.                                 *)
(***************************************************************************)
\* is_valid_phrase (lines 133-140) is False exactly on these phrases
IsBlankPhrase(phrase) == Strip(phrase) = <<>>

\* C12: interactive_single_input never asks for a manual code for an empty
\* or whitespace-only phrase, never appends a line for one and never adds
\* one to the existing-phrase set, under any rule.
C12_BlankRejected ==
    /\ pc = "pipeline_prompt" => ~IsBlankPhrase(outcome.phrase)
    /\ (outcome.done /\ IsBlankPhrase(outcome.phrase)) =>
           (~outcome.success /\ outcome.appended = 0)
    /\ \A p \in existing_phrases : ~IsBlankPhrase(p)

(***************************************************************************)
(* Properties of a session.                                                *)
(***************************************************************************)
\* the number of lines of a file that hold the phrase
Count(file, phrase) ==
    Cardinality({ k \in 1..Len(file) : ~file[k].blank /\ file[k].phrase = phrase })

NoRepeatedPhrase(file) == \A p \in read_existing_entries(file) : Count(file, p) = 1

\* the phrase holds a CJK character that the code table does not hold
HasUncodedChar(phrase) ==
    \E k \in 1..Len(phrase) : IsChinese(phrase[k]) /\ phrase[k] \notin DOMAIN char_codes

\* C1: the dictionary file never holds two lines with the same phrase,
\* whatever single-item ingestions and batch runs the session performs.
C1_PhraseUnique == NoRepeatedPhrase(output_file)

C3_FailOnce ==
    /\ NoRepeatedPhrase(fail_file)
    /\ (batch.running /\ batch.rule \in 1..4 /\ HasUncodedChar(batch.line)) =>
        /\ batch.reason \in {"exists", "in_fail_file", "uncoded_chars"}
        /\ batch.appended = 0
        /\ batch.reason = "uncoded_chars" =>
              (batch.line \notin batch.existing_phrases
               /\ Count(fail_file, batch.line) = batch.fail_appended)
        /\ batch.reason = "in_fail_file" =>
              (batch.fail_appended = 0 /\ Count(fail_file, batch.line) = 1)

\* the first line of the session's second batch run is a phrase that the
\* first run appended to the fail file: it is skipped
C3_Witness ==
    /\ batch.running /\ batch.rule \in 1..4 /\ HasUncodedChar(batch.line)
    /\ counts.file_count = 1 /\ batch.total_lines = 1
    /\ batch.reason = "in_fail_file"
    /\ Count(fail_file, batch.line) = 1

\* C4: a call of file_batch_mode with rule 5 reads no input line, leaves
\* both files and the existing-phrase set as they are, and returns a result
\* that no normal batch run has returned.
C4_Rule5Rejected ==
    [][(batch'.returned /\ batch'.kind = "rejected" /\ counts' # counts) =>
          /\ batch'.total_lines = 0
          /\ UNCHANGED <<output_file, fail_file, existing_phrases>>
          /\ \A r \in results' :
                r.kind = "normal" => <<r.added, r.failed>> # <<batch'.added, batch'.failed>>
      ]_vars

\* the phrase holds at least one CJK character
HasChinese(phrase) == extract_chinese_chars(phrase) # <<>>

\* C11: under rules 1 to 4, in single-item and in batch ingestion, a phrase
\* is rejected as "uncoded_chars" only when it holds a CJK character that
\* the code table lacks, and a new phrase with no CJK character at all is
\* rejected as "no_chinese".
C11_ReasonsDistinct ==
    /\ (outcome.done /\ rule \in 1..4) =>
          /\ outcome.reason = "uncoded_chars" => HasUncodedChar(outcome.phrase)
          /\ (~outcome.was_existing /\ ~HasChinese(outcome.phrase)) =>
                 outcome.reason = "no_chinese"
    /\ (batch.running /\ batch.rule \in 1..4 /\ batch.line # <<>>) =>
          /\ batch.reason = "uncoded_chars" => HasUncodedChar(batch.line)
          /\ (batch.reason \notin {"exists", "in_fail_file"} /\ ~HasChinese(batch.line)) =>
                 batch.reason = "no_chinese"

\* the weight the weight table gives for the phrase as it was typed
ListedWeight(phrase) ==
    IF phrase \in DOMAIN phrase_weights /\ MatchDigits(phrase_weights[phrase])
    THEN phrase_weights[phrase]
    ELSE <<"1", "0", "0">>

\* C13: every line of the dictionary carries a weight made of decimal
\* digits only: the weight table's value for the whole phrase when that
\* value is a digit string, and 100 otherwise.
C13_WeightResolved ==
    \A k \in 1..Len(output_file) :
        ~output_file[k].blank =>
            /\ MatchDigits(output_file[k].weight)
            /\ output_file[k].weight = ListedWeight(output_file[k].phrase)

\* a phrase with a Latin letter was appended with the weight listed for the
\* whole phrase (9), not the one listed for its CJK characters (5)
C13_Witness ==
    /\ outcome.done /\ outcome.success /\ outcome.appended = 1
    /\ outcome.phrase = <<"zh1", "lat">>
    /\ output_file # <<>>
    /\ output_file[Len(output_file)].phrase = outcome.phrase
    /\ output_file[Len(output_file)].weight = <<"9">>
    /\ phrase_weights[<<"zh1">>] = <<"5">>

\* a letter, in either case
IsLetter(c) == IsLowerLetter(c) \/ \E i \in 1..Len(UpperLetters) : UpperLetters[i] = c

\* the typed text holds a letter and nothing but letters and blanks
LettersAndBlanks(typed) ==
    /\ \E k \in 1..Len(typed) : IsLetter(typed[k])
    /\ \A k \in 1..Len(typed) : IsLetter(typed[k]) \/ typed[k] = " "

\* lower-case letters and single blanks, no blank at either end
WellFormedCode(code) ==
    /\ code # <<>>
    /\ \A k \in 1..Len(code) : IsLowerLetter(code[k]) \/ code[k] = " "
    /\ code[1] # " " /\ code[Len(code)] # " "
    /\ \A k \in 1..(Len(code) - 1) : ~(code[k] = " " /\ code[k + 1] = " ")

\* C14: under rule 5 the code prompt is left only with an accepted code or
\* by cancellation; an accepted code is well formed and is the lower-cased,
\* blank-collapsed form of a typed text of letters and blanks ("AB cd" gives
\* "ab cd"); any other typed text keeps the prompt; cancellation returns
\* "cancelled" and leaves the dictionary and the existing-phrase set alone.
C14_ManualCode ==
    [][(pc = "prompt") =>
          /\ pc' = "prompt" => UNCHANGED <<output_file, existing_phrases>>
          /\ pc' # "prompt" =>
               /\ outcome'.done
               /\ outcome'.reason \in {"added", "write_error", "cancelled"}
               /\ outcome'.success =>
                    /\ WellFormedCode(outcome'.code)
                    /\ \E typed \in TypedCodes :
                          /\ LettersAndBlanks(typed)
                          /\ outcome'.code = JoinSplit(Lower(Strip(typed)))
                    /\ (\E typed \in TypedCodes : typed = <<"A", "B", " ", "c", "d">>)
                    /\ manual_code(<<"A", "B", " ", "c", "d">>).code = <<"a", "b", " ", "c", "d">>
               /\ outcome'.reason = "cancelled" =>
                    UNCHANGED <<output_file, existing_phrases>>
      ]_vars

\* C15: in a batch run a line refused for its characters ("uncoded_chars",
\* "no_chinese") is what the fail file and the fail-record set receive, and
\* a line whose append to the dictionary raised is in neither of them.
C15_FailRouting ==
    batch.running =>
        /\ (batch.reason \in {"uncoded_chars", "no_chinese"} /\ batch.fail_appended = 1) =>
              /\ fail_file # <<>>
              /\ fail_file[Len(fail_file)].phrase = batch.line
              /\ batch.line \in batch.existing_fail_phrases
        /\ batch.fail_appended = 1 => batch.reason \in {"uncoded_chars", "no_chinese"}
        /\ batch.reason = "write_error" =>
              /\ batch.fail_appended = 0
              /\ batch.line \notin batch.existing_fail_phrases
              /\ Count(fail_file, batch.line) = 0

NoBlankLine(file) == \A k \in 1..Len(file) : ~file[k].blank

NonBlankLines(file) == SelectSeq(file, LAMBDA l : ~l.blank)

\* a driver returns to main, or a batch run returns its counts
RunFinishes ==
    \/ pc # "done" /\ pc' = "done"
    \/ pc = "batch" /\ batch'.returned /\ batch'.kind = "normal"

\* C16: when a run of interactive_input_mode, of auto_mode or of
\* file_batch_mode finishes, by its normal exit or by an interruption, the
\* dictionary file has no blank line, and its other lines are those it had,
\* in the same order.
C16_Normalized ==
    [][RunFinishes =>
          /\ NoBlankLine(output_file')
          /\ NonBlankLines(output_file') = NonBlankLines(output_file)
      ]_vars

\* file_batch_mode reads one more line of its input
BatchReads == pc = "batch" /\ batch'.running /\ batch'.total_lines = batch.total_lines + 1

\* C18: a batch run counts a line whose phrase is in the fail file as
\* skipped and writes nothing for it, under every rule and code table; no
\* step removes a phrase from the fail file or from the dictionary; a phrase
\* of the fail file enters the dictionary only through single-item
\* ingestion, and is then in both files.
C18_FailSticky ==
    [][/\ read_existing_entries(fail_file) \subseteq read_existing_entries(fail_file')
       /\ read_existing_entries(output_file) \subseteq read_existing_entries(output_file')
       /\ (BatchReads /\ batch'.line \in read_existing_entries(fail_file)) =>
             /\ batch'.reason \in {"exists", "in_fail_file"}
             /\ batch'.skipped_count = batch.skipped_count + 1
             /\ batch'.added_count = batch.added_count
             /\ batch'.fail_count = batch.fail_count
             /\ UNCHANGED <<output_file, fail_file>>
       /\ \A p \in read_existing_entries(fail_file) :
             (p \notin read_existing_entries(output_file)
              /\ p \in read_existing_entries(output_file')) =>
                 /\ pc \in {"auto", "prompt"}
                 /\ outcome'.done /\ outcome'.success /\ outcome'.phrase = p
                 /\ p \in read_existing_entries(fail_file')
      ]_vars

\* a batch run has skipped a phrase of the fail file that the code table
\* can now encode
C18_Witness ==
    /\ batch.running /\ batch.rule \in 1..4
    /\ batch.line = <<"zh1", "lat">>
    /\ batch.reason = "in_fail_file"
    /\ check_all_chars_exist(batch.line, char_codes)
    /\ batch.line \in read_existing_entries(fail_file)
    /\ batch.line \notin read_existing_entries(output_file)

====
